---------------------------- MODULE Spec2Model ----------------------------
(***************************************************************************)
(* Model of marketing/generator.py: the override applier, the with_utm     *)
(* filter and the command-line driver with its renderer/writer.            *)
(*                                                                         *)
(* Strings are sequences of one-character strings, so that split, strip    *)
(* and "in" are computed as the code computes them.  A Python dict is a    *)
(* function whose domain is its key set; a configuration value is a record *)
(* tagged with its kind ("map", "str", "num", "seq").                      *)
(***************************************************************************)
EXTENDS Integers, Sequences, FiniteSets, TLC

VARIABLES
    data,       \* apply_overrides: the configuration tree, mutated in place
    data0,      \* the tree as it was handed to apply_overrides
    overrides,  \* the list of --set strings
    idx,        \* position of the loop over overrides (1-based)
    before,     \* the tree before the latest iteration
    ovpc,       \* "idle" | "loop" | "done"
    url,        \* with_utm: the url argument
    utm,        \* the utm argument (a dict; None counts as {})
    extra,      \* the extra argument (an ordered dict; None counts as {})
    result,     \* what with_utm returned
    upc,        \* "idle" | "call" | "done"
    pc,         \* main: "idle" | "start" | "apply" | "render" | "loop" | "exit"
    ret,        \* exit status of main: "" | "0" | "2" | "raised"
    err,        \* the exception that ended the run: "none" | "parse" | "render" | "os"
    run,        \* 1 in the first invocation of main, 2 in the second
    product_ok, \* whether args.product exists
    doc,        \* the document in args.product
    margs,      \* args.overrides
    out_dir,    \* args.out
    dirs,       \* the directories of the filesystem
    files,      \* the regular files of the filesystem and their contents
    dirs0,      \* dirs when the current invocation started
    files0,     \* files when the current invocation started
    files1,     \* files when the first invocation started
    product_dict, \* the loaded configuration
    loaded,     \* load_yaml has returned in this invocation
    applied,    \* apply_overrides has returned in this invocation
    found,      \* what discover_templates returned in this invocation
    pos,        \* position of the loop of render_all in found
    written     \* the paths write_text has written in this invocation

varsOv == <<data, data0, overrides, idx, before, ovpc>>
varsUtm == <<url, utm, extra, result, upc>>
varsArgs == <<product_ok, doc, margs, out_dir>>
varsFs == <<dirs, files>>
varsRun == <<dirs0, files0, files1, run>>
varsMain == <<pc, ret, err, varsArgs, varsFs, varsRun, product_dict, loaded,
              applied, found, pos, written>>

vars == <<varsOv, varsUtm, varsMain>>

\* the variables of a part of the program that is not running
IdleOv ==
    /\ data = <<>> /\ data0 = <<>> /\ overrides = <<>>
    /\ idx = 0 /\ before = <<>> /\ ovpc = "idle"
IdleUtm ==
    /\ url = <<>> /\ utm = <<>> /\ extra = <<>> /\ result = <<>> /\ upc = "idle"
IdleMain ==
    /\ pc = "idle" /\ ret = "" /\ err = "none" /\ run = 0
    /\ product_ok = FALSE /\ doc = <<>> /\ margs = <<>> /\ out_dir = <<>>
    /\ dirs = {} /\ files = <<>> /\ dirs0 = {} /\ files0 = <<>> /\ files1 = <<>>
    /\ product_dict = <<>> /\ loaded = FALSE /\ applied = FALSE
    /\ found = <<>> /\ pos = 0 /\ written = {}

---------------------------------------------------------------------------
(* Bounds of the model.                                                    *)

\* longest dotted path (number of segments) of a single generated entry
MaxDepth == 3
\* longest override list drawn from ListItems
MaxOverrides == 3
\* most fields in the query string of a URL handed to with_utm
MaxFields == 2

---------------------------------------------------------------------------
(* str helpers: "in", split(sep, 1), split(sep), strip()                   *)

\* characters str.strip() removes
Whitespace == {" ", "\t", "\n"}

\* first position of character c in s, 0 when absent
IndexOf(s, c) ==
    IF \E i \in 1..Len(s) : s[i] = c
    THEN CHOOSE i \in 1..Len(s) : s[i] = c /\ \A j \in 1..(i-1) : s[j] # c
    ELSE 0

\* c in s
Contains(s, c) == IndexOf(s, c) # 0

\* s.split(c, 1) for s containing c
SplitOnce(s, c) ==
    LET i == IndexOf(s, c)
    IN  <<SubSeq(s, 1, i-1), SubSeq(s, i+1, Len(s))>>

RECURSIVE Split(_, _)
\* s.split(c): always at least one part, empty parts kept
Split(s, c) ==
    LET i == IndexOf(s, c)
    IN  IF i = 0 THEN <<s>>
        ELSE <<SubSeq(s, 1, i-1)>> \o Split(SubSeq(s, i+1, Len(s)), c)

RECURSIVE LStrip(_)
LStrip(s) == IF s # <<>> /\ Head(s) \in Whitespace THEN LStrip(Tail(s)) ELSE s

RECURSIVE RStrip(_)
RStrip(s) ==
    IF s # <<>> /\ s[Len(s)] \in Whitespace
    THEN RStrip(SubSeq(s, 1, Len(s)-1)) ELSE s

\* s.strip()
Strip(s) == RStrip(LStrip(s))

---------------------------------------------------------------------------
(* Configuration values                                                    *)

EmptyDict == <<>>

Map(d) == [kind |-> "map", items |-> d, val |-> <<>>]
Str(s) == [kind |-> "str", items |-> <<>>, val |-> s]
Num(s) == [kind |-> "num", items |-> <<>>, val |-> s]
List(s) == [kind |-> "seq", items |-> <<>>, val |-> s]

\* isinstance(v, dict)
IsDict(v) == v.kind = "map"

\* d[k] = v on a dict
Put(d, k, v) == [x \in (DOMAIN d) \cup {k} |-> IF x = k THEN v ELSE d[x]]

---------------------------------------------------------------------------
(* set_deep_value and apply_overrides                                      *)

RECURSIVE Descend(_, _, _)
\* the walk of set_deep_value from dict `current` over the remaining parts
Descend(current, parts, value) ==
    IF Len(parts) = 1
    THEN Put(current, parts[1], Str(value))
    ELSE LET key == parts[1]
             child == IF key \notin DOMAIN current \/ ~IsDict(current[key])
                      THEN EmptyDict
                      ELSE current[key].items
         IN  Put(current, key, Map(Descend(child, Tail(parts), value)))

\* a plausible slip: the walk replaces every intermediate by a fresh mapping
set_deep_value_fresh(target, dotted_path, value) ==
    LET parts == Split(dotted_path, ".")
        F[i \in 1..Len(parts)] ==
            IF i = Len(parts) THEN Put(EmptyDict, parts[i], Str(value))
            ELSE Put(EmptyDict, parts[i], Map(F[i+1]))
    IN  Put(target, parts[1], F[1][parts[1]])

RECURSIVE DescendKeep(_, _, _)
DescendKeep(current, parts, value) ==
    IF Len(parts) = 1
    THEN Put(current, parts[1], Str(value))
    ELSE LET key == parts[1]
         IN  IF key \notin DOMAIN current
             THEN Put(current, key, Map(DescendKeep(EmptyDict, Tail(parts), value)))
             ELSE IF ~IsDict(current[key])
             THEN Put(current, key,
                      Map(DescendKeep(Put(EmptyDict, <<"_">>, current[key]), Tail(parts), value)))
             ELSE Put(current, key, Map(DescendKeep(current[key].items, Tail(parts), value)))

\* a plausible slip: a non-mapping intermediate is kept inside the new mapping
set_deep_value_keep(target, dotted_path, value) ==
    DescendKeep(target, Split(dotted_path, "."), value)

\* a plausible slip: the dotted path is used as one flat key
set_deep_value_flat(target, dotted_path, value) ==
    Put(target, dotted_path, Str(value))

set_deep_value(target, dotted_path, value) ==
    Descend(target, Split(dotted_path, "."), value)

\* a plausible slip: an entry without "=" sets its key to the empty string
apply_item_noskip(d, item) ==
    IF ~Contains(item, "=")
    THEN set_deep_value(d, Strip(item), <<>>)
    ELSE LET pv == SplitOnce(item, "=")
         IN  set_deep_value(d, Strip(pv[1]), pv[2])

\* a plausible slip: the first write to a key wins
apply_item_first(d, item) ==
    IF ~Contains(item, "=")
    THEN d
    ELSE LET pv == SplitOnce(item, "=")
             parts == Split(Strip(pv[1]), ".")
         IN  IF Len(parts) = 1 /\ parts[1] \in DOMAIN d
             THEN d
             ELSE set_deep_value(d, Strip(pv[1]), pv[2])

\* the body of the loop of apply_overrides
apply_item(d, item) ==
    IF ~Contains(item, "=")
    THEN d
    ELSE LET pv == SplitOnce(item, "=")
         IN  set_deep_value(d, Strip(pv[1]), pv[2])

RECURSIVE apply_overrides(_, _)
apply_overrides(d, items) ==
    IF items = <<>> THEN d
    ELSE apply_overrides(apply_item(d, Head(items)), Tail(items))

---------------------------------------------------------------------------
(* Inputs of the override applier                                          *)

Keys == {<<"a">>, <<"b">>, <<"c">>}

RECURSIVE Join(_, _)
\* sep.join(parts)
Join(parts, sep) ==
    IF Len(parts) = 1 THEN parts[1]
    ELSE parts[1] \o sep \o Join(Tail(parts), sep)

KeyPaths == UNION {[1..n -> Keys] : n \in 1..MaxDepth}

Pads == {<<>>, <<" ">>}

Values == {<<"x">>, <<"y", "=", "z">>, <<>>}

\* every generated entry: padded dotted path, with or without "=", and a value
Items ==
    {l \o Join(p, <<".">>) \o r \o e \o v :
        l \in Pads, p \in KeyPaths, r \in Pads, e \in {<<"=">>, <<>>}, v \in Values}

\* the entries override lists are drawn from
ListItems ==
    { <<"a", "=", "x">>, <<"a", "=", "y">>, <<" ", "a", "=", "z">>,
      <<"a", ".", "b", "=", "x">>, <<"a", ".", "b", "=", "y">>,
      <<"b", "=", "x">>, <<"a", ".", "b", ".", "a", "=", "x">>,
      <<"a">>, <<"a", ".", "b">> }

Lists(S, n) == UNION {[1..k -> S] : k \in 0..n}

A == <<"a">>
B == <<"b">>
C == <<"c">>

\* configuration trees a YAML document can load to
InitTrees ==
    { EmptyDict,
      Put(EmptyDict, A, Num(<<"1">>)),
      Put(Put(EmptyDict, A, List(<<"1">>)), B, Str(<<"x">>)),
      Put(Put(EmptyDict, A, Map(Put(Put(EmptyDict, A, Num(<<"1">>)), B, Str(<<"o">>)))),
          B, Map(Put(EmptyDict, C, Num(<<"2">>)))),
      Put(Put(EmptyDict, A,
              Map(Put(Put(EmptyDict, B, Map(Put(Put(EmptyDict, A, Str(<<"o">>)), C, Num(<<"3">>)))),
                      C, List(<<"1">>)))),
          <<" ", "a">>, Num(<<"4">>)) }

---------------------------------------------------------------------------
(* apply_overrides as a loop                                               *)

InitOv ==
    /\ data \in InitTrees
    /\ data0 = data
    /\ overrides \in {<<i>> : i \in Items} \cup Lists(ListItems, MaxOverrides)
    /\ idx = 1
    /\ before = data
    /\ ovpc = "loop"
    /\ IdleUtm /\ IdleMain

\* one iteration of `for item in overrides`
OvItem ==
    /\ ovpc = "loop"
    /\ idx <= Len(overrides)
    /\ before' = data
    /\ data' = apply_item(data, overrides[idx])
    /\ idx' = idx + 1
    /\ UNCHANGED <<data0, overrides, ovpc, varsUtm, varsMain>>

\* the loop is exhausted and apply_overrides returns
OvReturn ==
    /\ ovpc = "loop"
    /\ idx > Len(overrides)
    /\ ovpc' = "done"
    /\ UNCHANGED <<data, data0, overrides, idx, before, varsUtm, varsMain>>

NextOv == OvItem \/ OvReturn

SpecOv == InitOv /\ [][NextOv]_vars

---------------------------------------------------------------------------
(* Properties of the override applier                                      *)

Missing == [kind |-> "missing", items |-> <<>>, val |-> <<>>]

RECURSIVE Lookup(_, _)
\* the value reached from v by following the keys `parts`, Missing when the
\* walk leaves the tree
Lookup(v, parts) ==
    IF parts = <<>> THEN v
    ELSE IF v.kind = "map" /\ Head(parts) \in DOMAIN v.items
         THEN Lookup(v.items[Head(parts)], Tail(parts))
         ELSE Missing

RECURSIVE Chain(_, _)
\* the mapping that holds nothing but the path `parts` ending in the string v
Chain(parts, v) ==
    IF Len(parts) = 1 THEN Map(Put(EmptyDict, parts[1], Str(v)))
    ELSE Map(Put(EmptyDict, parts[1], Chain(Tail(parts), v)))

IsPrefix(p, q) == Len(p) <= Len(q) /\ SubSeq(q, 1, Len(p)) = p

HasEq(item) == Contains(item, "=")

\* the entry handled by the latest iteration
Stepped == idx > 1
LastItem == overrides[idx - 1]
\* its left-hand side as written, its right-hand side
Lhs(item) == SplitOnce(item, "=")[1]
Rhs(item) == SplitOnce(item, "=")[2]
\* the segments of an entry: of the left-hand side as written, and of the
\* left-hand side without its surrounding whitespace
RawSegs(item) == Split(Lhs(item), ".")
Segs(item) == Split(Strip(Lhs(item)), ".")

ReachesValue(tree, segs, v) ==
    /\ Lookup(Map(tree), segs) = Str(v)
    /\ \A i \in 1..(Len(segs) - 1) : Lookup(Map(tree), SubSeq(segs, 1, i)).kind = "map"

ABCx == <<"a", ".", "b", ".", "c", "=", "x">>

\* C4 as stated: after an entry s1.s2...sn=v is processed, walking the
\* segments of its left-hand side as written reaches the string v through
\* mappings; a.b.c=x on the empty configuration gives {a: {b: {c: "x"}}}.
C4_SegmentsAsWritten ==
    (Stepped /\ HasEq(LastItem)) =>
        /\ ReachesValue(data, RawSegs(LastItem), Rhs(LastItem))
        /\ (LastItem = ABCx /\ before = EmptyDict) =>
               Map(data) = Chain(<<A, B, C>>, <<"x">>)

\* C4 amended: the segments are those of the left-hand side with leading and
\* trailing whitespace removed; walking them reaches the string v, every
\* node on the way is a mapping, and a.b.c=x on the empty configuration
\* gives exactly {a: {b: {c: "x"}}}.
C4_StrippedSegmentsReachValue ==
    (Stepped /\ HasEq(LastItem)) =>
        /\ ReachesValue(data, Segs(LastItem), Rhs(LastItem))
        /\ (LastItem = ABCx /\ before = EmptyDict) =>
               Map(data) = Chain(<<A, B, C>>, <<"x">>)

\* an entry with a padded three-segment path has created two missing levels
C4_Witness ==
    /\ Stepped /\ HasEq(LastItem)
    /\ Len(Segs(LastItem)) = 3
    /\ Lhs(LastItem) # Strip(Lhs(LastItem))
    /\ Lookup(Map(before), SubSeq(Segs(LastItem), 1, 1)) = Missing
    /\ Lookup(Map(data), Segs(LastItem)) = Str(Rhs(LastItem))

\* the position on the walked path of the first key that is present in
\* `tree` and holds a non-mapping, 0 when there is none
FirstBlocked(tree, segs) ==
    LET blocked(i) ==
            /\ \A j \in 1..(i-1) : Lookup(Map(tree), SubSeq(segs, 1, j)).kind = "map"
            /\ Lookup(Map(tree), SubSeq(segs, 1, i)).kind \in {"str", "num", "seq"}
    IN  IF \E i \in 1..(Len(segs) - 1) : blocked(i)
        THEN CHOOSE i \in 1..(Len(segs) - 1) : blocked(i)
        ELSE 0

\* C5: when the walk meets an intermediate key holding a scalar or a
\* sequence, that value is replaced by a fresh mapping holding only what the
\* rest of the path writes; a=x then a.b=y leaves a equal to {b: "y"}.
C5_NonMappingReplaced ==
    /\ (Stepped /\ HasEq(LastItem)) =>
          LET segs == Segs(LastItem)
              i == FirstBlocked(before, segs)
          IN  i # 0 =>
                Lookup(Map(data), SubSeq(segs, 1, i))
                    = Chain(SubSeq(segs, i + 1, Len(segs)), Rhs(LastItem))
    /\ (ovpc = "done" /\ overrides = << <<"a", "=", "x">>, <<"a", ".", "b", "=", "y">> >>) =>
          data[A] = Map(Put(EmptyDict, B, Str(<<"y">>)))

\* a sequence at `a` has been replaced by the mapping the rest of a.b.c writes
C5_Witness ==
    /\ Stepped /\ HasEq(LastItem)
    /\ Segs(LastItem) = <<A, B, C>>
    /\ Lookup(Map(before), <<A>>).kind = "seq"
    /\ Lookup(Map(data), <<A>>) = Chain(<<B, C>>, Rhs(LastItem))

\* the entries handled so far that no later handled entry disturbs, with the
\* path of an entry computed by P
Settled(P(_), i) ==
    \A j \in (i+1)..(idx-1) :
        HasEq(overrides[j]) =>
            /\ P(overrides[j]) # P(overrides[i])
            /\ ~IsPrefix(P(overrides[j]), P(overrides[i]))
            /\ ~IsPrefix(P(overrides[i]), P(overrides[j]))

Repeated(P(_), i) ==
    \E j \in 1..(idx-1) :
        j # i /\ HasEq(overrides[j]) /\ P(overrides[j]) = P(overrides[i])

\* C6 as stated: for entries sharing the dotted path p as written, the value
\* found at p is the right-hand side of the last of them, unless a later
\* entry targets a prefix or an extension of p.
C6_LastWriteWinsAsWritten ==
    \A i \in 1..(idx-1) :
        (HasEq(overrides[i]) /\ Repeated(RawSegs, i) /\ Settled(RawSegs, i)) =>
            Lookup(Map(data), RawSegs(overrides[i])) = Str(Rhs(overrides[i]))

\* C6 amended: the dotted path of an entry is its left-hand side with
\* leading and trailing whitespace removed; among the entries sharing a path
\* p the value found at p is the right-hand side of the last one, unless a
\* later entry targets a proper prefix or an extension of p.
C6_LastWriteWins ==
    \A i \in 1..(idx-1) :
        (HasEq(overrides[i]) /\ Repeated(Segs, i) /\ Settled(Segs, i)) =>
            Lookup(Map(data), Segs(overrides[i])) = Str(Rhs(overrides[i]))

\* the list held two entries for one path with different values; the later won
C6_Witness ==
    /\ ovpc = "done"
    /\ \E i, j \in 1..Len(overrides) :
          /\ i < j /\ HasEq(overrides[i]) /\ HasEq(overrides[j])
          /\ Segs(overrides[i]) = Segs(overrides[j])
          /\ Rhs(overrides[i]) # Rhs(overrides[j])
          /\ Settled(Segs, j)
          /\ Lookup(Map(data), Segs(overrides[j])) = Str(Rhs(overrides[j]))

\* C7: an entry without "=" leaves the tree unchanged, and the whole call
\* gives the tree that the list without such entries gives.
C7_MalformedSkipped ==
    /\ (Stepped /\ ~HasEq(LastItem)) => data = before
    /\ ovpc = "done" => data = apply_overrides(data0, SelectSeq(overrides, HasEq))

\* a finished call whose list held entries with and without "="
C7_Witness ==
    /\ ovpc = "done"
    /\ \E i, j \in 1..Len(overrides) : ~HasEq(overrides[i]) /\ HasEq(overrides[j])
    /\ data # data0

\* what one entry may change, given the segments of its path
FrameOf(segs) ==
    /\ \A k \in DOMAIN before :
          k # segs[1] => (k \in DOMAIN data /\ data[k] = before[k])
    /\ \A i \in 1..(Len(segs) - 1) :
          LET was == Lookup(Map(before), SubSeq(segs, 1, i))
              is == Lookup(Map(data), SubSeq(segs, 1, i))
          IN  was.kind = "map" =>
                \A k \in DOMAIN was.items :
                    k # segs[i + 1] =>
                        (is.kind = "map" /\ k \in DOMAIN is.items
                         /\ is.items[k] = was.items[k])
    /\ Cardinality(DOMAIN data) <= Cardinality(DOMAIN before) + 1

\* C10 as stated: an entry s1...sn=v changes only nodes on the path of its
\* segments as written: other root keys and the siblings at every
\* intermediate mapping keep their values, and the root gains at most one key.
C10_FrameAsWritten ==
    (Stepped /\ HasEq(LastItem)) => FrameOf(RawSegs(LastItem))

\* C10 amended: the same frame, for the segments of the left-hand side with
\* leading and trailing whitespace removed.
C10_Frame ==
    (Stepped /\ HasEq(LastItem)) => FrameOf(Segs(LastItem))

\* an entry went through an existing mapping that has a sibling key
C10_Witness ==
    /\ Stepped /\ HasEq(LastItem)
    /\ Len(Segs(LastItem)) >= 2
    /\ LET was == Lookup(Map(before), SubSeq(Segs(LastItem), 1, 1))
       IN  was.kind = "map" /\ \E k \in DOMAIN was.items : k # Segs(LastItem)[2]
    /\ Cardinality(DOMAIN before) >= 2
    /\ data # before

---------------------------------------------------------------------------
(* with_utm                                                                *)
(*                                                                         *)
(* A URL is a sequence of tokens: the scheme, host and path are one token, *)
(* "?", "&", "=" and "#" are tokens, and so is every parameter name and    *)
(* value.  An ordered dict is a sequence of <<key, value>> pairs with      *)
(* distinct keys, in insertion order.                                      *)

\* d[k] = v on an ordered dict: an existing key keeps its position
OPut(d, k, v) ==
    IF \E i \in 1..Len(d) : d[i][1] = k
    THEN [i \in 1..Len(d) |-> IF d[i][1] = k THEN <<k, v>> ELSE d[i]]
    ELSE Append(d, <<k, v>>)

RECURSIVE OUpdate(_, _)
\* {**d, **pairs}, also dict(pairs) when d is empty
OUpdate(d, pairs) ==
    IF pairs = <<>> THEN d
    ELSE OUpdate(OPut(d, Head(pairs)[1], Head(pairs)[2]), Tail(pairs))

\* urlparse: the part before the query, the query, the fragment
UrlParse(u) ==
    LET h == IndexOf(u, "#")
        nofrag == IF h = 0 THEN u ELSE SubSeq(u, 1, h - 1)
        frag == IF h = 0 THEN <<>> ELSE SubSeq(u, h + 1, Len(u))
        q == IndexOf(nofrag, "?")
    IN  [base |-> IF q = 0 THEN nofrag ELSE SubSeq(nofrag, 1, q - 1),
         query |-> IF q = 0 THEN <<>> ELSE SubSeq(nofrag, q + 1, Len(nofrag)),
         fragment |-> frag]

\* urlunparse: "?" and "#" are written only before a non-empty part
UrlUnparse(p) ==
    p.base \o (IF p.query = <<>> THEN <<>> ELSE <<"?">> \o p.query)
           \o (IF p.fragment = <<>> THEN <<>> ELSE <<"#">> \o p.fragment)

RECURSIVE QslFields(_)
\* the loop of parse_qsl over the fields, keep_blank_values=False
QslFields(fields) ==
    IF fields = <<>> THEN <<>>
    ELSE LET f == Head(fields)
             rest == QslFields(Tail(fields))
         IN  IF f = <<>> THEN rest
             ELSE IF ~Contains(f, "=") THEN rest
             ELSE LET nv == SplitOnce(f, "=")
                  IN  IF Len(nv[2]) > 0 THEN <<nv>> \o rest ELSE rest

\* urlparse.parse_qsl(parsed.query)
parse_qsl(qs) == QslFields(Split(qs, "&"))

UtmNames == << <<"source", "utm_source">>, <<"medium", "utm_medium">>,
               <<"campaign", "utm_campaign">>, <<"content", "utm_content">> >>

\* the dict comprehension of with_utm: the components whose value is truthy
UtmPairs(u) ==
    LET keep(i) == UtmNames[i][1] \in DOMAIN u /\ u[UtmNames[i][1]] # <<>>
        F[i \in 0..Len(UtmNames)] ==
            IF i = 0 THEN <<>>
            ELSE IF keep(i) THEN Append(F[i-1], << <<UtmNames[i][2]>>, u[UtmNames[i][1]] >>)
            ELSE F[i-1]
    IN  F[Len(UtmNames)]

RECURSIVE urlencode(_)
\* urlparse.urlencode(merged, doseq=True) for string values
urlencode(d) ==
    IF d = <<>> THEN <<>>
    ELSE Head(d)[1] \o <<"=">> \o Head(d)[2]
         \o (IF Tail(d) = <<>> THEN <<>> ELSE <<"&">> \o urlencode(Tail(d)))

\* the merge of with_utm
Merged(u, um, ex) ==
    OUpdate(OUpdate(OUpdate(<<>>, parse_qsl(UrlParse(u).query)), UtmPairs(um)), ex)

with_utm(u, um, ex) ==
    IF u = <<>> THEN u
    ELSE LET parsed == UrlParse(u)
         IN  UrlUnparse([parsed EXCEPT !.query = urlencode(Merged(u, um, ex))])

(* Inputs of with_utm                                                      *)

QueryFields ==
    { <<"q", "=", "1">>, <<"q", "=", "2">>, <<"q", "=">>, <<"flag">>,
      <<"r", "=", "2">>, <<"utm_source", "=", "o">> }

Queries == UNION {[1..n -> QueryFields] : n \in 1..MaxFields}

Bases == {<<"https://x.com/p">>}

Urls ==
    {<<>>} \cup Bases \cup {b \o <<"?">> : b \in Bases}
    \cup {b \o <<"?">> \o Join(q, <<"&">>) \o f :
            b \in Bases, q \in Queries, f \in {<<>>, <<"#", "top">>}}

UtmDicts ==
    { <<>>,
      ("source" :> <<"nl">>) @@ ("medium" :> <<"email">>),
      ("source" :> <<>>) @@ ("campaign" :> <<"c">>),
      ("source" :> <<"nl">>) @@ ("medium" :> <<"email">>)
          @@ ("campaign" :> <<"c">>) @@ ("content" :> <<"t">>) }

Extras ==
    { <<>>,
      << << <<"q">>, <<"9">> >> >>,
      << << <<"e">>, <<"5">> >>, << <<"utm_source">>, <<"z">> >> >>,
      << << <<"e">>, <<>> >> >> }

InitUtm ==
    /\ url \in Urls
    /\ utm \in UtmDicts
    /\ extra \in Extras
    /\ result = <<>>
    /\ upc = "call"
    /\ IdleOv /\ IdleMain

\* `if not url: return url`
WithUtmEmpty ==
    /\ upc = "call"
    /\ url = <<>>
    /\ result' = with_utm(url, utm, extra)
    /\ upc' = "done"
    /\ UNCHANGED <<url, utm, extra, varsOv, varsMain>>

\* the merge and the reassembly of the URL
WithUtmMerge ==
    /\ upc = "call"
    /\ url # <<>>
    /\ result' = with_utm(url, utm, extra)
    /\ upc' = "done"
    /\ UNCHANGED <<url, utm, extra, varsOv, varsMain>>

NextUtm == WithUtmEmpty \/ WithUtmMerge

SpecUtm == InitUtm /\ [][NextUtm]_vars

---------------------------------------------------------------------------
(* Properties of with_utm                                                  *)

\* every parameter of a query string, blank values included
AllParams(qs) ==
    LET fields == Split(qs, "&")
        F[i \in 0..Len(fields)] ==
            IF i = 0 THEN <<>>
            ELSE IF fields[i] = <<>> THEN F[i-1]
            ELSE IF Contains(fields[i], "=") THEN Append(F[i-1], SplitOnce(fields[i], "="))
            ELSE Append(F[i-1], <<fields[i], <<>> >>)
    IN  F[Len(fields)]

\* the keys of a sequence of writes in the order of their first write, each
\* with the value of its last write
LastWrites(w) ==
    LET first(i) == \A j \in 1..(i-1) : w[j][1] # w[i][1]
        last(k) == w[CHOOSE j \in 1..Len(w) :
                        w[j][1] = k /\ \A l \in (j+1)..Len(w) : w[l][1] # k][2]
        F[i \in 0..Len(w)] ==
            IF i = 0 THEN <<>>
            ELSE IF first(i) THEN Append(F[i-1], <<w[i][1], last(w[i][1])>>)
            ELSE F[i-1]
    IN  F[Len(w)]

\* C8: for a non-empty URL the query parameters of the result are the
\* original parameters, then the truthy UTM parameters, then the extra
\* parameters, each key once with the last value written; so every original
\* parameter is still present unless overridden.
C8_MergeOrderKeepsOriginal ==
    (upc = "done" /\ url # <<>>) =>
        AllParams(UrlParse(result).query)
            = LastWrites(AllParams(UrlParse(url).query) \o UtmPairs(utm) \o extra)

\* C8, as far as the code goes: the same merge, over the original parameters
\* that have a non-empty value (parse_qsl drops the others).
C8_NonBlankKept ==
    (upc = "done" /\ url # <<>>) =>
        AllParams(UrlParse(result).query)
            = LastWrites(SelectSeq(AllParams(UrlParse(url).query),
                                   LAMBDA kv : kv[2] # <<>>)
                         \o UtmPairs(utm) \o extra)

---------------------------------------------------------------------------
(* Paths and the filesystem                                                *)
(*                                                                         *)
(* A file name is a sequence of tokens, a stem followed by its extensions  *)
(* (<<"b", ".txt", ".j2">> is b.txt.j2; <<".j2">> is the hidden file .j2). *)
(* A path is a sequence of names.  `dirs` is the set of directories and    *)
(* `files` maps every regular file to its content, a sequence of tokens.   *)

Extensions == {".j2", ".txt"}

\* Path.suffix of the last component: a leading dot starts no suffix
Suffix(path) ==
    LET name == path[Len(path)]
    IN  IF Len(name) >= 2 /\ name[Len(name)] \in Extensions
        THEN name[Len(name)] ELSE ""

\* Path.with_suffix("")
WithoutSuffix(path) ==
    LET name == path[Len(path)]
    IN  IF Suffix(path) = "" THEN path
        ELSE [path EXCEPT ![Len(path)] = SubSeq(name, 1, Len(name) - 1)]

Prefixes(path) == {SubSeq(path, 1, i) : i \in 1..Len(path)}

Parent(path) == SubSeq(path, 1, Len(path) - 1)

\* Path.exists()
Exists(ds, fs, path) == path \in ds \/ path \in DOMAIN fs

\* mkdir(parents=True, exist_ok=True) raises when the path or one of its
\* ancestors is a regular file
MkdirRaises(fs, path) == \E q \in Prefixes(path) : q \in DOMAIN fs

\* ensure_dir
ensure_dir(ds, path) == ds \cup Prefixes(path)

\* write_text raises when the path is a directory
WriteRaises(ds, path) == path \in ds

\* a plausible slip: the file is opened for appending
write_text_append(fs, path, text) ==
    IF path \in DOMAIN fs THEN Put(fs, path, fs[path] \o text)
    ELSE Put(fs, path, text)

\* write_text: the file is created or truncated, then written
write_text(fs, path, text) == Put(fs, path, text)

\* the order of str on the tokens of file names
TokenOrder == <<".j2", ".txt", "a", "b", "o", "t">>

Rank(tok) == CHOOSE i \in 1..Len(TokenOrder) : TokenOrder[i] = tok

\* name x < name y as strings
NameLess(x, y) ==
    \E i \in 1..(Len(x) + 1) :
        /\ i <= Len(y)
        /\ \A j \in 1..(i-1) : x[j] = y[j]
        /\ (i <= Len(x) => Rank(x[i]) < Rank(y[i]))

\* Path x < Path y: the comparison of their parts
PathLess(x, y) ==
    \E i \in 1..(Len(x) + 1) :
        /\ i <= Len(y)
        /\ \A j \in 1..(i-1) : x[j] = y[j]
        /\ (i <= Len(x) => NameLess(x[i], y[i]))

RECURSIVE Sorted(_)
\* sorted(paths)
Sorted(S) ==
    IF S = {} THEN <<>>
    ELSE LET m == CHOOSE x \in S : \A y \in S : x = y \/ PathLess(x, y)
         IN  <<m>> \o Sorted(S \ {m})

\* templates_dir.glob("**/*")
Glob(ds, fs, root) ==
    {q \in ds \cup DOMAIN fs : Len(q) > Len(root) /\ IsPrefix(root, q)}

discover_templates(ds, fs, templates_dir) ==
    Sorted({q \in Glob(ds, fs, templates_dir) : q \in DOMAIN fs /\ Suffix(q) = ".j2"})

\* tpl_path.relative_to(templates_dir)
RelativeTo(path, root) == SubSeq(path, Len(root) + 1, Len(path))

\* a plausible slip: the output keeps only the file name
target_path_for_flat(template_rel_path, out) ==
    out \o <<WithoutSuffix(template_rel_path)[Len(template_rel_path)]>>

target_path_for(template_rel_path, out) ==
    out \o WithoutSuffix(template_rel_path)

---------------------------------------------------------------------------
(* Rendering: the template engine is an external collaborator.  A template *)
(* holding the token "{%" does not compile; "{{a}}" is replaced by the     *)
(* top-level configuration value a; every other token is copied.           *)

RenderRaises(src) == Contains(src, "{%")

Variable(ctx, k) ==
    IF k \notin DOMAIN ctx THEN <<>>
    ELSE IF ctx[k].kind \in {"str", "num"} THEN ctx[k].val
    ELSE <<"{...}">>

RECURSIVE Render(_, _)
\* template.render(**context)
Render(src, ctx) ==
    IF src = <<>> THEN <<>>
    ELSE (IF Head(src) = "{{a}}" THEN Variable(ctx, A) ELSE <<Head(src)>>)
         \o Render(Tail(src), ctx)

\* output.strip() + "\n"
Output(src, ctx) == Strip(Render(src, ctx)) \o <<"\n">>

---------------------------------------------------------------------------
(* Inputs of main                                                          *)

\* args.templates
templates_dir == << <<"t">> >>

\* args.out: apart from, equal to, inside the template root, and the path
\* of a template
OutDirs ==
    { << <<"o">> >>, templates_dir, templates_dir \o << <<"o">> >>,
      templates_dir \o << <<"a", ".j2">> >> }

\* the files a template tree is made of, relative to the template root
TreeFiles ==
    { << <<"a", ".j2">> >>,
      << <<"a">>, <<"b", ".j2">> >>,
      << <<"a", ".j2", ".j2">> >>,
      << <<"b", ".txt", ".j2">> >>,
      << <<".j2">> >>,
      << <<"a", ".j2">>, <<"b", ".j2">> >> }

\* no regular file is also a directory of the tree
IsTree(S) == \A x, y \in S : x = y \/ ~IsPrefix(x, y)

GoodSource == <<" ", "hi", "{{a}}", " ", "\n">>
BadSource == <<"{%">>

\* a file left in the output root by an earlier generation
StaleFile == << <<"o">>, <<"a">> >>

\* the documents of args.product: malformed, empty, a mapping
Documents == {[ok |-> FALSE, tree |-> EmptyDict],
              [ok |-> TRUE, tree |-> EmptyDict]}

OverrideArgs == {<<>>, << <<"a", "=", "x">> >>}

InitMain ==
    /\ IdleOv /\ IdleUtm
    /\ product_ok \in BOOLEAN
    /\ doc \in Documents
    /\ (~product_ok => doc.ok)
    /\ margs \in OverrideArgs
    /\ out_dir \in OutDirs
    /\ \E S \in SUBSET TreeFiles, stale \in BOOLEAN :
          /\ IsTree(S)
          /\ \E tpl_ok \in BOOLEAN, bad \in SUBSET S :
                /\ (~tpl_ok => S = {} /\ ~stale)
                /\ (stale => out_dir = << <<"o">> >>)
                /\ LET tfiles == {templates_dir \o r : r \in S}
                       all == tfiles \cup (IF stale THEN {StaleFile} ELSE {})
                   IN  /\ files = [q \in all |->
                                     IF RelativeTo(q, templates_dir) \in bad /\ q \in tfiles
                                     THEN BadSource ELSE GoodSource]
                       /\ dirs = (IF tpl_ok THEN {templates_dir} ELSE {})
                                 \cup UNION {Prefixes(Parent(q)) : q \in all}
    /\ dirs0 = dirs /\ files0 = files /\ files1 = files
    /\ pc = "start" /\ ret = "" /\ err = "none" /\ run = 1
    /\ product_dict = EmptyDict /\ loaded = FALSE /\ applied = FALSE
    /\ found = <<>> /\ pos = 0 /\ written = {}

---------------------------------------------------------------------------
(* main and render_all                                                     *)

Exit(status, e) == pc' = "exit" /\ ret' = status /\ err' = e

\* `if not product_path.exists(): return 2`
MainProductMissing ==
    /\ pc = "start"
    /\ ~product_ok
    /\ Exit("2", "none")
    /\ UNCHANGED <<varsArgs, varsFs, varsRun, product_dict, loaded, applied,
                   found, pos, written, varsOv, varsUtm>>

\* a plausible slip: the template root is checked after the configuration
\* has been loaded and patched
MainTemplatesMissingLate ==
    /\ pc = "start"
    /\ product_ok
    /\ ~Exists(dirs, files, templates_dir)
    /\ doc.ok
    /\ product_dict' = apply_overrides(doc.tree, margs)
    /\ loaded' = TRUE /\ applied' = TRUE
    /\ Exit("2", "none")
    /\ UNCHANGED <<varsArgs, varsFs, varsRun, found, pos, written, varsOv, varsUtm>>

\* `if not templates_dir.exists(): return 2`
MainTemplatesMissing ==
    /\ pc = "start"
    /\ product_ok
    /\ ~Exists(dirs, files, templates_dir)
    /\ Exit("2", "none")
    /\ UNCHANGED <<varsArgs, varsFs, varsRun, product_dict, loaded, applied,
                   found, pos, written, varsOv, varsUtm>>

\* load_yaml raises on a malformed document
MainLoadRaises ==
    /\ pc = "start"
    /\ product_ok
    /\ Exists(dirs, files, templates_dir)
    /\ ~doc.ok
    /\ Exit("raised", "parse")
    /\ UNCHANGED <<varsArgs, varsFs, varsRun, product_dict, loaded, applied,
                   found, pos, written, varsOv, varsUtm>>

\* data = load_yaml(product_path)
MainLoad ==
    /\ pc = "start"
    /\ product_ok
    /\ Exists(dirs, files, templates_dir)
    /\ doc.ok
    /\ product_dict' = doc.tree
    /\ loaded' = TRUE
    /\ pc' = "apply"
    /\ UNCHANGED <<ret, err, varsArgs, varsFs, varsRun, applied, found, pos,
                   written, varsOv, varsUtm>>

\* apply_overrides(data, args.overrides)
MainApply ==
    /\ pc = "apply"
    /\ product_dict' = apply_overrides(product_dict, margs)
    /\ applied' = TRUE
    /\ pc' = "render"
    /\ UNCHANGED <<ret, err, varsArgs, varsFs, varsRun, loaded, found, pos,
                   written, varsOv, varsUtm>>

\* render_all: ensure_dir(out_dir) raises
RenderBeginRaises ==
    /\ pc = "render"
    /\ MkdirRaises(files, out_dir)
    /\ Exit("raised", "os")
    /\ UNCHANGED <<varsArgs, varsFs, varsRun, product_dict, loaded, applied,
                   found, pos, written, varsOv, varsUtm>>

\* render_all up to the loop: ensure_dir(out_dir), discover_templates
RenderBegin ==
    /\ pc = "render"
    /\ ~MkdirRaises(files, out_dir)
    /\ dirs' = ensure_dir(dirs, out_dir)
    /\ found' = discover_templates(dirs', files, templates_dir)
    /\ pos' = 1
    /\ pc' = "loop"
    /\ UNCHANGED <<ret, err, varsArgs, files, varsRun, product_dict, loaded,
                   applied, written, varsOv, varsUtm>>

\* the template and the output path of the current iteration
Current == found[pos]
CurrentTarget == target_path_for(RelativeTo(Current, templates_dir), out_dir)

\* a plausible slip: the output file is opened before the template is
\* rendered, so a failing template leaves an empty output file
RenderTemplateRaisesTruncated ==
    /\ pc = "loop"
    /\ pos <= Len(found)
    /\ RenderRaises(files[Current])
    /\ ~MkdirRaises(files, Parent(CurrentTarget))
    /\ ~WriteRaises(ensure_dir(dirs, Parent(CurrentTarget)), CurrentTarget)
    /\ dirs' = ensure_dir(dirs, Parent(CurrentTarget))
    /\ files' = write_text(files, CurrentTarget, <<>>)
    /\ Exit("raised", "render")
    /\ UNCHANGED <<varsArgs, varsRun, product_dict, loaded, applied,
                   found, pos, written, varsOv, varsUtm>>

\* one iteration: get_template or render raises
RenderTemplateRaises ==
    /\ pc = "loop"
    /\ pos <= Len(found)
    /\ RenderRaises(files[Current])
    /\ Exit("raised", "render")
    /\ UNCHANGED <<varsArgs, varsFs, varsRun, product_dict, loaded, applied,
                   found, pos, written, varsOv, varsUtm>>

\* one iteration: ensure_dir(out_path.parent) raises
RenderMkdirRaises ==
    /\ pc = "loop"
    /\ pos <= Len(found)
    /\ ~RenderRaises(files[Current])
    /\ MkdirRaises(files, Parent(CurrentTarget))
    /\ Exit("raised", "os")
    /\ UNCHANGED <<varsArgs, varsFs, varsRun, product_dict, loaded, applied,
                   found, pos, written, varsOv, varsUtm>>

\* one iteration: write_text raises, after ensure_dir(out_path.parent)
RenderWriteRaises ==
    /\ pc = "loop"
    /\ pos <= Len(found)
    /\ ~RenderRaises(files[Current])
    /\ ~MkdirRaises(files, Parent(CurrentTarget))
    /\ WriteRaises(ensure_dir(dirs, Parent(CurrentTarget)), CurrentTarget)
    /\ dirs' = ensure_dir(dirs, Parent(CurrentTarget))
    /\ Exit("raised", "os")
    /\ UNCHANGED <<varsArgs, files, varsRun, product_dict, loaded, applied,
                   found, pos, written, varsOv, varsUtm>>

\* one iteration: the template is rendered and its output written
RenderTemplate ==
    /\ pc = "loop"
    /\ pos <= Len(found)
    /\ ~RenderRaises(files[Current])
    /\ ~MkdirRaises(files, Parent(CurrentTarget))
    /\ ~WriteRaises(ensure_dir(dirs, Parent(CurrentTarget)), CurrentTarget)
    /\ dirs' = ensure_dir(dirs, Parent(CurrentTarget))
    /\ files' = write_text(files, CurrentTarget, Output(files[Current], product_dict))
    /\ written' = written \cup {CurrentTarget}
    /\ pos' = pos + 1
    /\ UNCHANGED <<pc, ret, err, varsArgs, varsRun, product_dict, loaded,
                   applied, found, varsOv, varsUtm>>

\* the loop is exhausted: render_all returns and main returns 0
RenderReturn ==
    /\ pc = "loop"
    /\ pos > Len(found)
    /\ Exit("0", "none")
    /\ UNCHANGED <<varsArgs, varsFs, varsRun, product_dict, loaded, applied,
                   found, pos, written, varsOv, varsUtm>>

\* main is invoked a second time with the same arguments
MainAgain ==
    /\ pc = "exit"
    /\ run = 1
    /\ run' = 2
    /\ dirs0' = dirs /\ files0' = files
    /\ pc' = "start" /\ ret' = "" /\ err' = "none"
    /\ product_dict' = EmptyDict /\ loaded' = FALSE /\ applied' = FALSE
    /\ found' = <<>> /\ pos' = 0 /\ written' = {}
    /\ UNCHANGED <<varsArgs, varsFs, files1, varsOv, varsUtm>>

NextMain ==
    \/ MainProductMissing
    \/ MainTemplatesMissing
    \/ MainLoadRaises
    \/ MainLoad
    \/ MainApply
    \/ RenderBeginRaises
    \/ RenderBegin
    \/ RenderTemplateRaises
    \/ RenderMkdirRaises
    \/ RenderWriteRaises
    \/ RenderTemplate
    \/ RenderReturn
    \/ MainAgain

SpecMain == InitMain /\ [][NextMain]_vars

---------------------------------------------------------------------------
(* Properties of main and render_all                                       *)

\* a regular file below the template root whose name ends in .j2
IsTemplatePath(q) ==
    /\ Len(q) > Len(templates_dir)
    /\ IsPrefix(templates_dir, q)
    /\ LET name == q[Len(q)] IN Len(name) >= 2 /\ name[Len(name)] = ".j2"

TemplatesOf(fs) == {q \in DOMAIN fs : IsTemplatePath(q)}

\* the template's path relative to the template root, without the trailing
\* .j2, below the output root
OutputPathOf(q) ==
    LET rel == SubSeq(q, Len(templates_dir) + 1, Len(q))
        name == rel[Len(rel)]
    IN  out_dir \o SubSeq(rel, 1, Len(rel) - 1) \o <<SubSeq(name, 1, Len(name) - 1)>>

ProperlyBelow(q, root) == Len(q) > Len(root) /\ IsPrefix(root, q)

\* the regular files below root, with their contents
Under(fs, root) ==
    [q \in {x \in DOMAIN fs : ProperlyBelow(x, root)} |-> fs[q]]

\* the invocation went through render_all and no template failed to render
RenderedCleanly == pc = "exit" /\ applied /\ err # "render"

\* one regular file per template of the tree at its output path, nothing
\* else written, and no two templates sharing an output path
ExactOutputs ==
    LET tpls == TemplatesOf(files0)
        outs == {OutputPathOf(t) : t \in tpls}
    IN  /\ ret = "0"
        /\ written = outs
        /\ outs \subseteq DOMAIN files
        /\ DOMAIN Under(files, out_dir) = DOMAIN Under(files0, out_dir) \cup outs
        /\ \A t, u \in tpls : OutputPathOf(t) = OutputPathOf(u) => t = u

\* C1 as stated, for a new output root apart from the template root: a run
\* without template errors completes and leaves exactly one regular file per
\* template at its relative path without .j2, also when a template's name
\* without .j2 is the name of a sibling directory holding templates.
C1_EveryTreeRenders ==
    (RenderedCleanly /\ run = 1 /\ out_dir = << <<"o">> >>
        /\ ~Exists(dirs0, files0, out_dir)) => ExactOutputs

\* no output path is a directory or the ancestor of another output path,
\* and no ancestor of an output path, the output root included, is a
\* regular file
NoPathClash ==
    LET outs == {OutputPathOf(t) : t \in TemplatesOf(files0)}
    IN  /\ ~MkdirRaises(files0, out_dir)
        /\ \A o \in outs :
              /\ o \notin dirs0
              /\ ~MkdirRaises(files0, Parent(o))
              /\ \A o2 \in outs : o = o2 \/ ~IsPrefix(o, o2)

\* C1 amended: when no output path is a directory or the ancestor of
\* another output path, and no ancestor of an output path is a regular
\* file, a run without template errors completes and leaves exactly one
\* regular file per template at its relative path without .j2, writes no
\* other file, and distinct templates have distinct output paths.
C1_ClashFreeTreeRenders ==
    (RenderedCleanly /\ NoPathClash) => ExactOutputs

\* a finished run over a tree with a nested and a top-level template
C1_Witness ==
    /\ RenderedCleanly /\ NoPathClash /\ ret = "0" /\ run = 1
    /\ \E t, u \in TemplatesOf(files0) :
          Len(OutputPathOf(t)) > Len(OutputPathOf(u)) /\ {OutputPathOf(t), OutputPathOf(u)} \subseteq written

\* C2 as stated: after the second of two runs with identical arguments the
\* files under the output root and their contents are those left by the
\* first run, for any placement of the output root.
C2_IdempotentAnyPlacement ==
    (pc = "exit" /\ run = 2) => Under(files, out_dir) = Under(files0, out_dir)

\* the first run created or changed no template of the tree
TemplatesUntouched ==
    \A t \in TemplatesOf(files0) : t \in DOMAIN files1 /\ files1[t] = files0[t]

\* C2 amended: provided the first run wrote no file that is a template
\* under the template root (which takes an output root inside or equal to
\* the template root), after the second run the files under the output
\* root and their contents are those left by the first run.
C2_Idempotent ==
    (pc = "exit" /\ run = 2 /\ TemplatesUntouched) =>
        Under(files, out_dir) = Under(files0, out_dir)

\* a second run that rewrote two outputs, with overrides in force
C2_Witness ==
    /\ pc = "exit" /\ run = 2 /\ ret = "0" /\ TemplatesUntouched
    /\ Cardinality(written) >= 2
    /\ margs # <<>>
    /\ Under(files, out_dir) = Under(files0, out_dir)

\* the configuration path or the template root did not exist when main began
InputMissing == ~product_ok \/ ~Exists(dirs0, files0, templates_dir)

\* C3: with the configuration path or the template root missing, main
\* returns 2 and has loaded nothing, applied no override, created no
\* directory and written no file.
C3_MissingInputNoWork ==
    (pc # "idle" /\ InputMissing) =>
        /\ ~loaded /\ ~applied /\ product_dict = EmptyDict
        /\ dirs = dirs0 /\ files = files0 /\ written = {}
        /\ pc = "exit" => ret = "2"

\* main returned 2 for a missing template root, with overrides given and
\* the output root not there
C3_Witness ==
    /\ pc = "exit" /\ ret = "2"
    /\ product_ok /\ ~Exists(dirs0, files0, templates_dir)
    /\ margs # <<>>
    /\ ~Exists(dirs, files, out_dir)

\* C9: when rendering the template at position pos fails, main does not
\* return 0, the outputs written are exactly those of the templates before
\* it, and the output paths of that template and of the later ones are as
\* they were when the run began.
C9_RenderFailureAborts ==
    (pc = "exit" /\ err = "render") =>
        /\ ret # "0"
        /\ written = {OutputPathOf(found[i]) : i \in 1..(pos - 1)}
        /\ written \subseteq DOMAIN files
        /\ \A i \in pos..Len(found) :
              LET o == OutputPathOf(found[i])
              IN  /\ o \notin written
                  /\ (o \in DOMAIN files <=> o \in DOMAIN files0)
                  /\ (o \in DOMAIN files => files[o] = files0[o])

\* a template between two others failed to render
C9_Witness ==
    /\ pc = "exit" /\ err = "render"
    /\ 1 < pos /\ pos < Len(found)
    /\ written # {}

=============================================================================
